---- MODULE Spec2Model ----
(***************************************************************************)
(* Tiger-Alt bot (src/main.py): the position store, the auto-trail engine  *)
(* and the Polygon price monitor, as one state machine.  Every coroutine   *)
(* is a task whose pc is the await it is suspended at; one action is the   *)
(* effect of that await together with the code that runs up to the next    *)
(* await.  Money and prices are integers; a stop price is the exact        *)
(* rational <<numerator, denominator>>.                                    *)
(***************************************************************************)
EXTENDS Integers, Sequences, FiniteSets, TLC

\* ------------------------------------------------------------------ bounds
\* Coroutines that can be alive at once (webhook requests, listeners,
\* reconnect chains, the startup handler).
MaxTasks == 2
\* WebSocket connections opened over one run, and over one run of the whole
\* process.
MaxConns == 3
MaxSystemConns == 2
\* Entry signals accepted over one run (the records' timestamps).
MaxEntries == 1
\* Failed websockets.connect calls in a row that the model follows.
MaxRetry == 1
\* The ranges the engine is run over on its own: quantity, pointValue,
\* armAfterProfit, trailStep, the tick price, and the entry price.
MaxQuantity == 2
MaxPointValue == 2
MaxArm == 2
MaxStep == 2
MaxPrice == 10
CalcEntry == 5

\* ------------------------------------------------------- program constants
max_reconnect_attempts == 10
DefaultPointValue == 5

\* ----------------------------------------------------------------- symbols
\* A symbol is a sequence of one-character strings.
Upper == {"A","B","C","D","E","F","G","H","I","J","K","L","M",
          "N","O","P","Q","R","S","T","U","V","W","X","Y","Z"}
Digits == {"0","1","2","3","4","5","6","7","8","9"}
MonthCodes == {"F","G","H","J","K","M","N","Q","U","V","X","Z"}

DigitVal(c) ==
    CASE c = "0" -> 0 [] c = "1" -> 1 [] c = "2" -> 2 [] c = "3" -> 3
      [] c = "4" -> 4 [] c = "5" -> 5 [] c = "6" -> 6 [] c = "7" -> 7
      [] c = "8" -> 8 [] c = "9" -> 9

AllIn(s, lo, hi, chars) == \A i \in lo..hi : s[i] \in chars

\* r'^([A-Z]{2,4})([FGHJKMNQUVXZ])(\d{4})$'
MatchCmeTv(s) ==
    /\ Len(s) \in 7..9
    /\ AllIn(s, 1, Len(s) - 5, Upper)
    /\ s[Len(s) - 4] \in MonthCodes
    /\ AllIn(s, Len(s) - 3, Len(s), Digits)

\* r'^I:([A-Z]{2,4})([FGHJKMNQUVXZ])(\d{2})$'
MatchCmePolygon(s) ==
    /\ Len(s) \in 7..9
    /\ s[1] = "I" /\ s[2] = ":"
    /\ AllIn(s, 3, Len(s) - 3, Upper)
    /\ s[Len(s) - 2] \in MonthCodes
    /\ AllIn(s, Len(s) - 1, Len(s), Digits)

FuturesSymbols ==
    { <<"N","Q">>, <<"E","S">>, <<"Y","M">>, <<"R","T","Y">>, <<"G","C">>,
      <<"C","L">>, <<"N","G">>, <<"Z","B">>, <<"Z","N">>, <<"Z","F">>,
      <<"6","E">>, <<"6","J">>, <<"6","B">>, <<"6","A">>, <<"6","C">>,
      <<"6","S">>, <<"M","N","Q">>, <<"M","E","S">>, <<"M","Y","M">>,
      <<"M","2","K">>, <<"M","G","C">>, <<"M","C","L">> }
CryptoSymbols ==
    { <<"B","T","C","U","S","D">>, <<"E","T","H","U","S","D">>,
      <<"A","D","A","U","S","D">>, <<"S","O","L","U","S","D">> }
ForexSymbols ==
    { <<"E","U","R","U","S","D">>, <<"G","B","P","U","S","D">>,
      <<"U","S","D","J","P","Y">>, <<"A","U","D","U","S","D">>,
      <<"U","S","D","C","A","D">>, <<"U","S","D","C","H","F">> }

\* symbol_map: every value is its key behind a two-character prefix.
symbol_map(s) ==
    CASE s \in FuturesSymbols -> <<"I", ":">> \o s
      [] s \in CryptoSymbols  -> <<"X", ":">> \o s
      [] s \in ForexSymbols   -> <<"C", ":">> \o s

tradingview_to_polygon(tv_symbol) ==
    IF MatchCmeTv(tv_symbol)
    THEN LET n == Len(tv_symbol)
         IN  <<"I", ":">> \o SubSeq(tv_symbol, 1, n - 4) \o SubSeq(tv_symbol, n - 1, n)
    ELSE IF tv_symbol \in FuturesSymbols \cup CryptoSymbols \cup ForexSymbols
    THEN symbol_map(tv_symbol)
    ELSE tv_symbol

polygon_to_tradingview(polygon_symbol) ==
    IF MatchCmePolygon(polygon_symbol)
    THEN LET n == Len(polygon_symbol)
             year_int == 10 * DigitVal(polygon_symbol[n - 1]) + DigitVal(polygon_symbol[n])
             century == IF year_int <= 30 THEN <<"2", "0">> ELSE <<"1", "9">>
         IN  SubSeq(polygon_symbol, 3, n - 2) \o century \o SubSeq(polygon_symbol, n - 1, n)
    ELSE IF Len(polygon_symbol) >= 2 /\ polygon_symbol[2] = ":"
            /\ polygon_symbol[1] \in {"I", "X", "C"}
    THEN SubSeq(polygon_symbol, 3, Len(polygon_symbol))
    ELSE polygon_symbol

\* ------------------------------------------------------------------ inputs
MNQU2025 == <<"M","N","Q","U","2","0","2","5">>
Tickers == {MNQU2025}
NoTicker == <<>>

\* Entry webhooks the alert side can send (a field that is missing or zero
\* is 0): the spec's long scenario, a short with armAfterProfit = trailStep,
\* a long with armAfterProfit < trailStep and no pointValue, and a payload
\* without quantity.
EntrySignals ==
    { [action |-> "buy",  price |-> 20000, quantity |-> 1,  armAfterProfit |-> 100,
       trailStep |-> 50, hardStop |-> 19950, pointValue |-> 2],
      [action |-> "sell", price |-> 50,    quantity |-> 10, armAfterProfit |-> 20,
       trailStep |-> 20, hardStop |-> 53,    pointValue |-> 1],
      [action |-> "buy",  price |-> 20040, quantity |-> 1,  armAfterProfit |-> 50,
       trailStep |-> 100, hardStop |-> 20000, pointValue |-> 0],
      [action |-> "buy",  price |-> 20040, quantity |-> 0,  armAfterProfit |-> 50,
       trailStep |-> 100, hardStop |-> 20000, pointValue |-> 1] }

\* The feed symbols of a set of tickers.
FeedOf(tickers) == {tradingview_to_polygon(t) : t \in tickers}

\* The symbols the feed reports trades for, and the prices it can report.
FeedSymbols == {tradingview_to_polygon(t) : t \in Tickers}
TickPrices == {20050, 20075, 46, 48, 52}

\* The payloads and prices followed through the whole process.
SystemSignals == {sig \in EntrySignals : sig.armAfterProfit = 50}
SystemPrices == {20050}

\* The payloads and prices the engine is run over on its own: the ones
\* above, and every combination of small values, a negative trailStep
\* included (the entry validation lets it through).
CalcSignals ==
    {sig \in EntrySignals : sig.quantity # 0} \cup
    [action : {"buy", "sell"}, price : {CalcEntry}, quantity : 1..MaxQuantity,
     armAfterProfit : 1..MaxArm, trailStep : {-1} \cup (1..MaxStep),
     hardStop : {1}, pointValue : 1..MaxPointValue]
CalcPrices == TickPrices \cup (1..MaxPrice)


\* ------------------------------------------------------- auto-trail engine
NoStop == <<>>

Abs(x) == IF x < 0 THEN -x ELSE x

\* int(a / b): Python's int() truncates toward zero.
PyInt(a, b) ==
    IF (a >= 0) = (b > 0) THEN Abs(a) \div Abs(b) ELSE -(Abs(a) \div Abs(b))

Min(a, b) == IF a <= b THEN a ELSE b

\* profit_dollars
Profit(position, current_price) ==
    IF position.side = "buy"
    THEN (current_price - position.entryPrice) * position.pointValue * position.quantity
    ELSE (position.entryPrice - current_price) * position.pointValue * position.quantity

\* The arming test taken against trailStep in place of armAfterProfit.
ArmedAtStep(position, profit) == profit >= position.trailStep

\* if profit_dollars >= arm_after_profit
Armed(position, profit) == profit >= position.armAfterProfit

\* trail_increments = int(excess_profit / trail_step)
TrailIncrements(position, profit) ==
    PyInt(profit - position.armAfterProfit, position.trailStep)

\* The candidate counted up from armAfterProfit, as
\* armAfterProfit + increments * trailStep, and not capped.
LockedProfitFromArm(position, profit) ==
    position.armAfterProfit + TrailIncrements(position, profit) * position.trailStep

\* The candidate counted up from armAfterProfit + trailStep, and not capped.
LockedProfitAhead(position, profit) ==
    (position.armAfterProfit + position.trailStep)
        + TrailIncrements(position, profit) * position.trailStep

\* locked_profit = min((arm - step) + increments * step, profit - step)
LockedProfit(position, profit) ==
    Min((position.armAfterProfit - position.trailStep)
            + TrailIncrements(position, profit) * position.trailStep,
        profit - position.trailStep)

\* A stop placed on the losing side of the entry by the locked profit.
NewStopAway(position, locked_profit) ==
    LET d == position.pointValue * position.quantity
    IN  IF position.side = "buy"
        THEN <<position.entryPrice * d - locked_profit, d>>
        ELSE <<position.entryPrice * d + locked_profit, d>>

\* new_stop = entry_price +/- locked_profit / (pointValue * quantity)
NewStop(position, locked_profit) ==
    LET d == position.pointValue * position.quantity
    IN  IF position.side = "buy"
        THEN <<position.entryPrice * d + locked_profit, d>>
        ELSE <<position.entryPrice * d - locked_profit, d>>

\* The ratchet test with >= in place of >.
ShouldRatchetNotStrict(position, locked_profit) ==
    \/ position.currentStop = NoStop
    \/ locked_profit >= position.lockedProfit

\* if current_stop is None or locked_profit > current_locked_profit
ShouldRatchet(position, locked_profit) ==
    \/ position.currentStop = NoStop
    \/ locked_profit > position.lockedProfit

\* a <= b for stop prices <<n, d>>
StopLeq(a, b) ==
    IF (a[2] > 0) = (b[2] > 0)
    THEN a[1] * b[2] <= b[1] * a[2]
    ELSE a[1] * b[2] >= b[1] * a[2]

\* the stop price <<n, d>> is the number x
StopIs(a, x) == a[1] = x * a[2]

\* stop_update_payload
StopUpdatePayload(ticker, position) ==
    [ticker |-> ticker,
     action |-> IF position.side = "buy" THEN "sell" ELSE "buy",
     quantity |-> position.quantity,
     orderType |-> "stop",
     stopPrice |-> position.currentStop]

\* data.get("action", "").lower(), over the spellings that occur here.
Lower(action) ==
    CASE action \in {"buy", "Buy", "BUY"} -> "buy"
      [] action \in {"sell", "Sell", "SELL"} -> "sell"
      [] OTHER -> action

\* if not all([quantity, price, arm_after_profit, trail_step, hard_stop])
EntryValid(sig) ==
    /\ sig.quantity # 0 /\ sig.price # 0 /\ sig.armAfterProfit # 0
    /\ sig.trailStep # 0 /\ sig.hardStop # 0

\* position_data
PositionData(ticker, sig, now) ==
    [ticker |-> ticker, side |-> sig.action, entryPrice |-> sig.price,
     quantity |-> sig.quantity, armAfterProfit |-> sig.armAfterProfit,
     trailStep |-> sig.trailStep, hardStop |-> sig.hardStop,
     pointValue |-> IF sig.pointValue # 0 THEN sig.pointValue ELSE DefaultPointValue,
     timestamp |-> now, currentStop |-> NoStop, lockedProfit |-> 0]

\* ------------------------------------------------------------------- state
VARIABLES
    store,               \* Redis: ticker -> <<>> (no key) or <<position record>>
    monitored_symbols,   \* price_monitor.monitored_symbols
    is_connected,        \* price_monitor.is_connected
    ws,                  \* price_monitor.ws: 0 (None) or a connection
    reconnect_attempts,  \* price_monitor.reconnect_attempts
    conn,                \* each connection: "none", "open", "closedOK", "closedErr"
    subs,                \* each connection: the tickers subscribed at the feed
    task,                \* the coroutines: where each is suspended, and its locals
    phase,               \* "startup", "serving" or "dead" (startup raised)
    clock,               \* entry signals accepted so far: the next record's timestamp
    tp,                  \* TradersPost: per ticker the last stop adjustment dispatched
    exited               \* per ticker the timestamps of the records an exit deleted

vars == <<store, monitored_symbols, is_connected, ws, reconnect_attempts, conn,
          subs, task, phase, clock, tp, exited>>

Tasks == 1..MaxTasks
Conns == 1..MaxConns

Idle ==
    [pc |-> "free", origin |-> "none", conn |-> 0, ticker |-> NoTicker,
     price |-> 0, pos |-> <<>>, nsent |-> 0, ncast |-> 0, wait |-> 0]

\* A record left in Redis by an earlier run of the process.
BootRecord(t) ==
    PositionData(t, [action |-> "buy", price |-> 20000, quantity |-> 1,
                     armAfterProfit |-> 100, trailStep |-> 50,
                     hardStop |-> 19950, pointValue |-> 2], 0)

\* The lowest free task slot is the one a new coroutine takes.
FreeSlot(k) ==
    /\ task[k].pc = "free"
    /\ \A j \in Tasks : j < k => task[j].pc # "free"

HasPosition(t) == store[t] # <<>>
StoredTickers == {t \in Tickers : HasPosition(t)}

\* Module load and the start of startup_event: the monitor is constructed,
\* the startup handler is inside its connect().
Init ==
    /\ store \in {[t \in Tickers |-> <<>>], [t \in Tickers |-> <<BootRecord(t)>>]}
    /\ monitored_symbols = {}
    /\ is_connected = FALSE
    /\ ws = 0
    /\ reconnect_attempts = 0
    /\ conn = [c \in Conns |-> "none"]
    /\ subs = [c \in Conns |-> {}]
    /\ task = [k \in Tasks |->
                 IF k = 1 THEN [Idle EXCEPT !.pc = "connecting", !.origin = "startup"]
                 ELSE Idle]
    /\ phase = "startup"
    /\ clock = 0
    /\ tp = [t \in Tickers |-> <<>>]
    /\ exited = [t \in Tickers |-> {}]

\* ws.send(message) on price_monitor.ws: raises unless that connection is open.
WsOpen == ws # 0 /\ conn[ws] = "open"

\* ------------------------------------------------- position store, webhooks
\* POST /pine-entry, Tiger-Alt with an action that is buy or sell once
\* lower-cased: handle_tiger_alt_entry up to the redis.set of save_position.
EntrySignal(k, t, sig) ==
    /\ phase = "serving"
    /\ FreeSlot(k)
    /\ clock < MaxEntries
    /\ Lower(sig.action) \in {"buy", "sell"}
    /\ EntryValid(sig)
    /\ clock' = clock + 1
    /\ task' = [task EXCEPT ![k] =
                    [Idle EXCEPT !.pc = "e_set", !.origin = "request", !.ticker = t,
                                 !.pos = <<PositionData(t, sig, clock + 1)>>]]
    /\ UNCHANGED <<store, monitored_symbols, is_connected, ws, reconnect_attempts,
                   conn, subs, phase, tp, exited>>

\* handle_tiger_alt_entry: a payload that fails validation is answered 400
\* and leaves nothing behind.
EntryRejected(sig) ==
    /\ phase = "serving"
    /\ ~EntryValid(sig)
    /\ UNCHANGED vars

\* save_position: the redis.set takes effect, or raises and the except
\* branch skips add_symbol.
SavePositionSet(k, ok) ==
    /\ phase # "dead"
    /\ task[k].pc \in {"e_set", "set"}
    /\ IF ok
       THEN /\ store' = [store EXCEPT ![task[k].ticker] = task[k].pos]
            /\ task' = [task EXCEPT ![k].pc =
                            IF task[k].pc = "e_set" THEN "e_add" ELSE "add"]
       ELSE /\ store' = store
            /\ task' = [task EXCEPT ![k].pc =
                            IF task[k].pc = "e_set" THEN "e_post" ELSE "post"]
    /\ UNCHANGED <<monitored_symbols, is_connected, ws, reconnect_attempts, conn,
                   subs, phase, clock, tp, exited>>

\* save_position after the set: price_monitor.add_symbol(ticker); a send on
\* a closed connection raises into save_position's except branch.
AddSymbol(k) ==
    /\ phase # "dead"
    /\ task[k].pc \in {"e_add", "add"}
    /\ monitored_symbols' = monitored_symbols \cup {task[k].ticker}
    /\ subs' = IF is_connected /\ WsOpen
               THEN [subs EXCEPT ![ws] = @ \cup {tradingview_to_polygon(task[k].ticker)}]
               ELSE subs
    /\ task' = [task EXCEPT ![k].pc = IF task[k].pc = "e_add" THEN "e_post" ELSE "post"]
    /\ UNCHANGED <<store, is_connected, ws, reconnect_attempts, conn, phase, clock,
                   tp, exited>>

\* handle_tiger_alt_entry: the market order and the hard stop order are
\* posted to TradersPost, and the request is answered.
EntryPost(k) ==
    /\ phase # "dead"
    /\ task[k].pc = "e_post"
    /\ task' = [task EXCEPT ![k] = Idle]
    /\ UNCHANGED <<store, monitored_symbols, is_connected, ws, reconnect_attempts,
                   conn, subs, phase, clock, tp, exited>>

\* POST /pine-entry, Tiger-Alt exit: handle_tiger_alt_exit up to the
\* redis.delete of delete_position (the get_position before it only feeds
\* the response).
ExitSignal(k, t) ==
    /\ phase = "serving"
    /\ FreeSlot(k)
    /\ task' = [task EXCEPT ![k] =
                    [Idle EXCEPT !.pc = "x_del", !.origin = "request", !.ticker = t]]
    /\ UNCHANGED <<store, monitored_symbols, is_connected, ws, reconnect_attempts,
                   conn, subs, phase, clock, tp, exited>>

\* delete_position: the redis.delete takes effect, or raises and the except
\* branch skips remove_symbol.
DeletePositionDel(k, ok) ==
    /\ phase # "dead"
    /\ task[k].pc = "x_del"
    /\ LET t == task[k].ticker
       IN  IF ok
           THEN /\ store' = [store EXCEPT ![t] = <<>>]
                /\ exited' = IF HasPosition(t)
                             THEN [exited EXCEPT ![t] = @ \cup {store[t][1].timestamp}]
                             ELSE exited
                /\ task' = [task EXCEPT ![k].pc = "x_remove"]
           ELSE /\ UNCHANGED <<store, exited>>
                /\ task' = [task EXCEPT ![k].pc = "x_post"]
    /\ UNCHANGED <<monitored_symbols, is_connected, ws, reconnect_attempts, conn,
                   subs, phase, clock, tp>>

\* delete_position after the delete: price_monitor.remove_symbol(ticker).
RemoveSymbol(k) ==
    /\ phase # "dead"
    /\ task[k].pc = "x_remove"
    /\ monitored_symbols' = monitored_symbols \ {task[k].ticker}
    /\ subs' = IF is_connected /\ WsOpen
               THEN [subs EXCEPT ![ws] = @ \ {tradingview_to_polygon(task[k].ticker)}]
               ELSE subs
    /\ task' = [task EXCEPT ![k].pc = "x_post"]
    /\ UNCHANGED <<store, is_connected, ws, reconnect_attempts, conn, phase, clock,
                   tp, exited>>

\* handle_tiger_alt_exit: the exit order is posted and the request answered.
ExitPost(k) ==
    /\ phase # "dead"
    /\ task[k].pc = "x_post"
    /\ task' = [task EXCEPT ![k] = Idle]
    /\ UNCHANGED <<store, monitored_symbols, is_connected, ws, reconnect_attempts,
                   conn, subs, phase, clock, tp, exited>>

\* Redis drops a key whose 24 h expiry has passed.
Expire(t) ==
    /\ phase # "dead"
    /\ HasPosition(t)
    /\ store' = [store EXCEPT ![t] = <<>>]
    /\ UNCHANGED <<monitored_symbols, is_connected, ws, reconnect_attempts, conn,
                   subs, task, phase, clock, tp, exited>>

\* ------------------------------------------------------- price monitor
\* What a task is once the connect() it is inside has returned: the startup
\* handler goes on to load the stored keys, a request or a listener ends.
AfterConnect(k) ==
    IF task[k].origin = "startup"
    THEN [Idle EXCEPT !.pc = "s_keys", !.origin = "startup"]
    ELSE Idle

\* A backoff that doubles without the ceiling.
WaitTimeUncapped(attempts) == 2 ^ attempts

\* wait_time = min(2 ** self.reconnect_attempts, 60)
WaitTime(attempts) == Min(2 ^ attempts, 60)

\* A _handle_reconnect that never gives up.
HandleReconnectUnbounded(k, attempts) ==
    /\ is_connected' = FALSE
    /\ reconnect_attempts' = attempts + 1
    /\ task' = [task EXCEPT ![k] =
                    [Idle EXCEPT !.pc = "sleeping", !.origin = task[k].origin,
                                 !.wait = WaitTime(attempts + 1)]]

\* An except branch: is_connected = False, then _handle_reconnect up to its
\* sleep, or straight back when the attempts are used up.
HandleReconnect(k, attempts) ==
    /\ is_connected' = FALSE
    /\ IF attempts >= max_reconnect_attempts
       THEN /\ reconnect_attempts' = attempts
            /\ task' = [task EXCEPT ![k] = AfterConnect(k)]
       ELSE /\ reconnect_attempts' = attempts + 1
            /\ task' = [task EXCEPT ![k] =
                            [Idle EXCEPT !.pc = "sleeping", !.origin = task[k].origin,
                                         !.wait = WaitTime(attempts + 1)]]

\* _handle_reconnect: the sleep is over, connect() is called; wait_time
\* stays in the frame of _handle_reconnect while that connect() runs.
Wake(k) ==
    /\ phase # "dead"
    /\ task[k].pc = "sleeping"
    /\ task' = [task EXCEPT ![k].pc = "connecting"]
    /\ UNCHANGED <<store, monitored_symbols, is_connected, ws, reconnect_attempts,
                   conn, subs, phase, clock, tp, exited>>

\* connect(): websockets.connect returns a new connection, which becomes
\* self.ws and is sent the auth message; or it raises.
ConnectOpen(k, ok) ==
    /\ phase # "dead"
    /\ task[k].pc = "connecting"
    /\ IF ok
       THEN \E c \in Conns :
              /\ conn[c] = "none"
              /\ \A b \in Conns : b < c => conn[b] # "none"
              /\ conn' = [conn EXCEPT ![c] = "open"]
              /\ ws' = c
              /\ task' = [task EXCEPT ![k].pc = "authing", ![k].conn = c]
              /\ UNCHANGED <<is_connected, reconnect_attempts>>
       ELSE /\ HandleReconnect(k, reconnect_attempts)
            /\ UNCHANGED <<conn, ws>>
    /\ UNCHANGED <<store, monitored_symbols, subs, phase, clock, tp, exited>>

\* A connect() that subscribes nothing after the handshake.
SubscribeNothing(c) == subs

\* _subscribe_to_symbols: one subscribe for every monitored symbol, sent on
\* self.ws.
SubscribeAll(c) ==
    [subs EXCEPT ![c] = @ \cup {tradingview_to_polygon(t) : t \in monitored_symbols}]

\* connect(): the auth response arrives with auth_success.  The monitored
\* symbols are subscribed on self.ws (a send that raises when that
\* connection is closed), the listener task is created, connect() returns.
ConnectAuthSuccess(k, j) ==
    /\ phase # "dead"
    /\ task[k].pc = "authing"
    /\ conn[task[k].conn] = "open"
    /\ IF monitored_symbols # {} /\ ~WsOpen
       THEN /\ j = k
            /\ HandleReconnect(k, 0)
            /\ subs' = subs
       ELSE /\ is_connected' = TRUE
            /\ reconnect_attempts' = 0
            /\ subs' = IF monitored_symbols # {} THEN SubscribeAll(ws) ELSE subs
            /\ IF task[k].origin = "startup"
               THEN /\ FreeSlot(j)
                    /\ task' = [task EXCEPT
                                  ![k] = AfterConnect(k),
                                  ![j] = [Idle EXCEPT !.pc = "l_start",
                                                      !.origin = "listener"]]
               ELSE /\ j = k
                    /\ task' = [task EXCEPT
                                  ![k] = [Idle EXCEPT !.pc = "l_start",
                                                      !.origin = "listener"]]
    /\ UNCHANGED <<store, monitored_symbols, ws, conn, phase, clock, tp, exited>>

\* connect(): the auth response is not a list, or holds no auth_success:
\* is_connected = False and connect() returns.
ConnectAuthRejected(k) ==
    /\ phase # "dead"
    /\ task[k].pc = "authing"
    /\ conn[task[k].conn] = "open"
    /\ is_connected' = FALSE
    /\ task' = [task EXCEPT ![k] = AfterConnect(k)]
    /\ UNCHANGED <<store, monitored_symbols, ws, reconnect_attempts, conn, subs,
                   phase, clock, tp, exited>>

\* connect(): recv or json.loads raises (the connection closed, the response
\* is no JSON).
ConnectAuthError(k) ==
    /\ phase # "dead"
    /\ task[k].pc = "authing"
    /\ HandleReconnect(k, reconnect_attempts)
    /\ UNCHANGED <<store, monitored_symbols, ws, conn, subs, phase, clock, tp, exited>>

\* recv on a connection another coroutine is already waiting on raises.
RecvPc(k, c) ==
    IF \E j \in Tasks \ {k} : task[j].pc = "recv" /\ task[j].conn = c
    THEN "l_raise" ELSE "recv"

\* calculate_auto_trail: `return None`, on the path that ratchets and on
\* the paths that do not.
NoResult == <<>>
TrailResult(ratcheted) == NoResult

\* _process_message: `if trail_result:` broadcasts one auto_trail_update.
Broadcasts(trail_result) == IF trail_result # NoResult THEN 1 ELSE 0

\* calculate_auto_trail has returned and the listener is back at `async for
\* message in self.ws`; ticker and price stay those of the tick it has
\* handled last.
BackToRecv(k) ==
    [task[k] EXCEPT !.pc = RecvPc(k, task[k].conn), !.pos = <<>>,
                    !.ncast = Broadcasts(TrailResult(task[k].pc = "post"))]

\* _listen_for_messages starts: the loop iterates the connection that is
\* self.ws at this moment.
ListenerStart(k) ==
    /\ phase # "dead"
    /\ task[k].pc = "l_start"
    /\ task' = [task EXCEPT ![k].conn = ws, ![k].pc = RecvPc(k, ws)]
    /\ UNCHANGED <<store, monitored_symbols, is_connected, ws, reconnect_attempts,
                   conn, subs, phase, clock, tp, exited>>

\* _listen_for_messages, except branches: the connection closed with an
\* error, or recv raised.
ListenerError(k) ==
    /\ phase # "dead"
    /\ \/ task[k].pc = "l_raise"
       \/ task[k].pc = "recv" /\ conn[task[k].conn] = "closedErr"
    /\ HandleReconnect(k, reconnect_attempts)
    /\ UNCHANGED <<store, monitored_symbols, ws, conn, subs, phase, clock, tp, exited>>

\* _listen_for_messages: a message is no JSON, json.loads raises into the
\* except Exception branch.
RecvMalformed(k) ==
    /\ phase # "dead"
    /\ task[k].pc = "recv"
    /\ conn[task[k].conn] = "open"
    /\ HandleReconnect(k, reconnect_attempts)
    /\ UNCHANGED <<store, monitored_symbols, ws, conn, subs, phase, clock, tp, exited>>

\* _listen_for_messages: the connection closed normally, the loop ends.
ListenerEnd(k) ==
    /\ phase # "dead"
    /\ task[k].pc = "recv"
    /\ conn[task[k].conn] = "closedOK"
    /\ task' = [task EXCEPT ![k] = Idle]
    /\ UNCHANGED <<store, monitored_symbols, is_connected, ws, reconnect_attempts,
                   conn, subs, phase, clock, tp, exited>>

\* The feed closes a connection, normally or with an error.
ServerClose(c, how) ==
    /\ phase # "dead"
    /\ conn[c] = "open"
    /\ conn' = [conn EXCEPT ![c] = how]
    /\ UNCHANGED <<store, monitored_symbols, is_connected, ws, reconnect_attempts,
                   subs, task, phase, clock, tp, exited>>

\* _process_message, ev == "T": the symbol is translated back and, when it
\* is monitored, calculate_auto_trail is entered up to its redis.get.
RecvTrade(k, sym, price) ==
    /\ phase # "dead"
    /\ task[k].pc = "recv"
    /\ conn[task[k].conn] = "open"
    /\ sym \in subs[task[k].conn]
    /\ LET tv_symbol == polygon_to_tradingview(sym)
       IN  IF tv_symbol \in monitored_symbols
           THEN task' = [task EXCEPT ![k].pc = "get", ![k].ticker = tv_symbol,
                                     ![k].price = price, ![k].nsent = 0,
                                     ![k].ncast = 0]
           ELSE task' = task
    /\ UNCHANGED <<store, monitored_symbols, is_connected, ws, reconnect_attempts,
                   conn, subs, phase, clock, tp, exited>>

\* _process_message, a bar or status event: logged only.
RecvOther(k) ==
    /\ phase # "dead"
    /\ task[k].pc = "recv"
    /\ conn[task[k].conn] = "open"
    /\ UNCHANGED vars

\* calculate_auto_trail: get_position answers (None when Redis raises), the
\* profit and the candidate are computed and the record is updated in
\* memory when the stop ratchets.
GetPosition(k, ok) ==
    /\ phase # "dead"
    /\ task[k].pc = "get"
    /\ LET read == IF ok THEN store[task[k].ticker] ELSE <<>>
       IN  IF read = <<>>
           THEN task' = [task EXCEPT ![k] = BackToRecv(k)]
           ELSE LET position == read[1]
                    profit == Profit(position, task[k].price)
                    locked == LockedProfit(position, profit)
                IN  IF Armed(position, profit) /\ ShouldRatchet(position, locked)
                    THEN task' = [task EXCEPT
                             ![k].pc = "set",
                             ![k].pos = <<[position EXCEPT
                                             !.currentStop = NewStop(position, locked),
                                             !.lockedProfit = locked]>>]
                    ELSE task' = [task EXCEPT ![k] = BackToRecv(k)]
    /\ UNCHANGED <<store, monitored_symbols, is_connected, ws, reconnect_attempts,
                   conn, subs, phase, clock, tp, exited>>

\* A dispatch that is made again until TradersPost accepts it.
SendStopUpdateRetrying(k, delivered) ==
    /\ phase # "dead"
    /\ task[k].pc = "post"
    /\ tp' = [tp EXCEPT ![task[k].ticker] =
                <<[order |-> StopUpdatePayload(task[k].ticker, task[k].pos[1]),
                   lifetime |-> task[k].pos[1].timestamp,
                   delivered |-> delivered]>>]
    /\ task' = [task EXCEPT ![k] =
                    IF delivered
                    THEN [BackToRecv(k) EXCEPT !.nsent = task[k].nsent + 1]
                    ELSE [task[k] EXCEPT !.nsent = task[k].nsent + 1]]
    /\ UNCHANGED <<store, monitored_symbols, is_connected, ws, reconnect_attempts,
                   conn, subs, phase, clock, exited>>

\* calculate_auto_trail: send_traderspost(stop_update_payload); the POST is
\* made once, and send_traderspost answers with a result, delivered or not,
\* that calculate_auto_trail does not look at.
SendStopUpdate(k, delivered) ==
    /\ phase # "dead"
    /\ task[k].pc = "post"
    /\ tp' = [tp EXCEPT ![task[k].ticker] =
                <<[order |-> StopUpdatePayload(task[k].ticker, task[k].pos[1]),
                   lifetime |-> task[k].pos[1].timestamp,
                   delivered |-> delivered]>>]
    /\ task' = [task EXCEPT ![k] = [BackToRecv(k) EXCEPT !.nsent = task[k].nsent + 1]]
    /\ UNCHANGED <<store, monitored_symbols, is_connected, ws, reconnect_attempts,
                   conn, subs, phase, clock, exited>>

\* POST /monitor/start while not connected: connect() is called.
StartMonitoring(k) ==
    /\ phase = "serving"
    /\ ~is_connected
    /\ FreeSlot(k)
    /\ task' = [task EXCEPT ![k] = [Idle EXCEPT !.pc = "connecting",
                                                !.origin = "request"]]
    /\ UNCHANGED <<store, monitored_symbols, is_connected, ws, reconnect_attempts,
                   conn, subs, phase, clock, tp, exited>>

\* POST /monitor/stop: disconnect() closes self.ws when there is one.
StopMonitoring(k) ==
    /\ phase = "serving"
    /\ FreeSlot(k)
    /\ IF ws = 0
       THEN /\ is_connected' = FALSE
            /\ UNCHANGED <<conn, task>>
       ELSE /\ conn' = IF WsOpen THEN [conn EXCEPT ![ws] = "closedOK"] ELSE conn
            /\ task' = [task EXCEPT ![k] = [Idle EXCEPT !.pc = "d_close",
                                                        !.origin = "request"]]
            /\ is_connected' = is_connected
    /\ UNCHANGED <<store, monitored_symbols, ws, reconnect_attempts,
                   subs, phase, clock, tp, exited>>

\* disconnect() after the close: is_connected = False.
DisconnectDone(k) ==
    /\ phase # "dead"
    /\ task[k].pc = "d_close"
    /\ is_connected' = FALSE
    /\ task' = [task EXCEPT ![k] = Idle]
    /\ UNCHANGED <<store, monitored_symbols, ws, reconnect_attempts, conn, subs,
                   phase, clock, tp, exited>>

\* A startup that rebuilds the monitored set only over a live connection.
StartupKeysIfConnected(k, ok) ==
    /\ phase = "startup"
    /\ task[k].pc = "s_keys"
    /\ task' = [task EXCEPT ![k] = Idle]
    /\ IF ~ok
       THEN /\ phase' = "dead"
            /\ UNCHANGED <<monitored_symbols, subs>>
       ELSE /\ phase' = "serving"
            /\ monitored_symbols' = IF is_connected /\ WsOpen
                                    THEN monitored_symbols \cup StoredTickers
                                    ELSE monitored_symbols
            /\ subs' = IF is_connected /\ WsOpen
                       THEN [subs EXCEPT ![ws] = @ \cup FeedOf(StoredTickers)]
                       ELSE subs
    /\ UNCHANGED <<store, is_connected, ws, reconnect_attempts, conn, clock, tp, exited>>

\* startup_event after connect(): every stored key is added to the monitor;
\* the handler raises, and the process does not start, when Redis raises or
\* a subscribe is sent on a closed connection.
StartupKeys(k, ok) ==
    /\ phase = "startup"
    /\ task[k].pc = "s_keys"
    /\ task' = [task EXCEPT ![k] = Idle]
    /\ IF ~ok
       THEN /\ phase' = "dead"
            /\ UNCHANGED <<monitored_symbols, subs>>
       ELSE /\ monitored_symbols' = monitored_symbols \cup StoredTickers
            /\ IF StoredTickers # {} /\ is_connected /\ ~WsOpen
               THEN /\ phase' = "dead"
                    /\ subs' = subs
               ELSE /\ phase' = "serving"
                    /\ subs' = IF StoredTickers # {} /\ is_connected
                               THEN [subs EXCEPT ![ws] = @ \cup
                                       {tradingview_to_polygon(t) : t \in StoredTickers}]
                               ELSE subs
    /\ UNCHANGED <<store, is_connected, ws, reconnect_attempts, conn, clock, tp, exited>>

\* The steps of the position store and of the webhook handlers past their
\* first await.
StoreStep ==
    \/ \E k \in Tasks, ok \in BOOLEAN : SavePositionSet(k, ok)
    \/ \E k \in Tasks : AddSymbol(k)
    \/ \E k \in Tasks : EntryPost(k)
    \/ \E k \in Tasks, t \in Tickers : ExitSignal(k, t)
    \/ \E k \in Tasks, ok \in BOOLEAN : DeletePositionDel(k, ok)
    \/ \E k \in Tasks : RemoveSymbol(k)
    \/ \E k \in Tasks : ExitPost(k)
    \/ \E t \in Tickers : Expire(t)

\* The steps of calculate_auto_trail past the tick that starts it.
TrailStep ==
    \/ \E k \in Tasks : RecvOther(k)
    \/ \E k \in Tasks, ok \in BOOLEAN : GetPosition(k, ok)
    \/ \E k \in Tasks, delivered \in BOOLEAN : SendStopUpdate(k, delivered)

\* The steps that open, lose and close feed connections.
FeedStep ==
    \/ \E k \in Tasks : Wake(k)
    \/ \E k \in Tasks, ok \in BOOLEAN :
          /\ IF ok THEN conn[MaxSystemConns] = "none"
                   ELSE reconnect_attempts < MaxRetry
          /\ ConnectOpen(k, ok)
    \/ \E k, j \in Tasks : ConnectAuthSuccess(k, j)
    \/ \E k \in Tasks : ConnectAuthRejected(k)
    \/ \E k \in Tasks : ConnectAuthError(k)
    \/ \E k \in Tasks : ListenerStart(k)
    \/ \E k \in Tasks : ListenerError(k)
    \/ \E k \in Tasks : RecvMalformed(k)
    \/ \E k \in Tasks : ListenerEnd(k)
    \/ \E c \in Conns, how \in {"closedOK", "closedErr"} : ServerClose(c, how)
    \/ \E k \in Tasks : StartMonitoring(k)
    \/ \E k \in Tasks : StopMonitoring(k)
    \/ \E k \in Tasks : DisconnectDone(k)
    \/ \E k \in Tasks, ok \in BOOLEAN : StartupKeys(k, ok)

\* The whole process from its start, over the entry payloads and prices of
\* SystemSignals and SystemPrices.
Next ==
    \/ \E k \in Tasks, t \in Tickers, sig \in SystemSignals : EntrySignal(k, t, sig)
    \/ \E sig \in SystemSignals : EntryRejected(sig)
    \/ \E k \in Tasks, sym \in FeedSymbols, price \in SystemPrices :
          RecvTrade(k, sym, price)
    \/ StoreStep
    \/ TrailStep
    \/ FeedStep

Spec == Init /\ [][Next]_vars

\* The process once startup_event has connected, started the listener and
\* loaded the stored keys.
InitTrail ==
    /\ store = [t \in Tickers |-> <<>>]
    /\ monitored_symbols = StoredTickers
    /\ is_connected = TRUE
    /\ ws = 1
    /\ reconnect_attempts = 0
    /\ conn = [c \in Conns |-> IF c = 1 THEN "open" ELSE "none"]
    /\ subs = [c \in Conns |->
                 IF c = 1 THEN {tradingview_to_polygon(t) : t \in StoredTickers}
                 ELSE {}]
    /\ task = [k \in Tasks |->
                 IF k = MaxTasks
                 THEN [Idle EXCEPT !.pc = "recv", !.origin = "listener", !.conn = 1]
                 ELSE Idle]
    /\ phase = "serving"
    /\ clock = 0
    /\ tp = [t \in Tickers |-> <<>>]
    /\ exited = [t \in Tickers |-> {}]

\* Signals, expiries and ticks while the feed connection stays up, over
\* every entry payload and price.
NextTrail ==
    \/ \E k \in Tasks, t \in Tickers, sig \in EntrySignals : EntrySignal(k, t, sig)
    \/ \E sig \in EntrySignals : EntryRejected(sig)
    \/ \E k \in Tasks, sym \in FeedSymbols, price \in TickPrices :
          RecvTrade(k, sym, price)
    \/ StoreStep
    \/ TrailStep

SpecTrail == InitTrail /\ [][NextTrail]_vars

\* One stored position and a connected listener: the engine alone, over
\* CalcSignals and CalcPrices.
InitCalc ==
    /\ \E sig \in CalcSignals :
          store = [t \in Tickers |-> <<PositionData(t, sig, 0)>>]
    /\ monitored_symbols = Tickers
    /\ is_connected = TRUE
    /\ ws = 1
    /\ reconnect_attempts = 0
    /\ conn = [c \in Conns |-> IF c = 1 THEN "open" ELSE "none"]
    /\ subs = [c \in Conns |-> IF c = 1 THEN FeedSymbols ELSE {}]
    /\ task = [k \in Tasks |->
                 IF k = MaxTasks
                 THEN [Idle EXCEPT !.pc = "recv", !.origin = "listener", !.conn = 1]
                 ELSE Idle]
    /\ phase = "serving"
    /\ clock = 0
    /\ tp = [t \in Tickers |-> <<>>]
    /\ exited = [t \in Tickers |-> {}]

NextCalc ==
    \/ \E k \in Tasks, sym \in FeedSymbols, price \in CalcPrices :
          RecvTrade(k, sym, price)
    \/ \E k \in Tasks, ok \in BOOLEAN : SavePositionSet(k, ok)
    \/ \E k \in Tasks : AddSymbol(k)
    \/ TrailStep

SpecCalc == InitCalc /\ [][NextCalc]_vars

\* Entry and exit signals with no ticks: the handlers up to their answer.
SignalStep ==
    \/ \E k \in Tasks, t \in Tickers, sig \in SystemSignals : EntrySignal(k, t, sig)
    \/ \E k \in Tasks, ok \in BOOLEAN : SavePositionSet(k, ok)
    \/ \E k \in Tasks : AddSymbol(k)
    \/ \E k \in Tasks : EntryPost(k)
    \/ \E k \in Tasks, t \in Tickers : ExitSignal(k, t)
    \/ \E k \in Tasks, ok \in BOOLEAN : DeletePositionDel(k, ok)
    \/ \E k \in Tasks : RemoveSymbol(k)
    \/ \E k \in Tasks : ExitPost(k)

\* The steps of a listener and of the reconnect chain it starts, the
\* websockets.connect call apart.
ChainStep ==
    \/ \E k \in Tasks : Wake(k)
    \/ \E k, j \in Tasks : ConnectAuthSuccess(k, j)
    \/ \E k \in Tasks : ConnectAuthRejected(k)
    \/ \E k \in Tasks : ConnectAuthError(k)
    \/ \E k \in Tasks : ListenerStart(k)
    \/ \E k \in Tasks : ListenerError(k)
    \/ \E k \in Tasks : RecvMalformed(k)
    \/ \E k \in Tasks : ListenerEnd(k)
    \/ \E c \in Conns, how \in {"closedOK", "closedErr"} : ServerClose(c, how)

\* Signals while the feed connection is lost and the reconnect chain brings
\* it back: no ticks, no /monitor calls, a store that answers; MaxRetry
\* failed connects in a row after the loss, MaxSystemConns connections.
NextFeed ==
    \/ \E k \in Tasks, t \in Tickers, sig \in SystemSignals : EntrySignal(k, t, sig)
    \/ \E k \in Tasks : SavePositionSet(k, TRUE)
    \/ \E k \in Tasks : AddSymbol(k)
    \/ \E k \in Tasks : EntryPost(k)
    \/ \E k \in Tasks, t \in Tickers : ExitSignal(k, t)
    \/ \E k \in Tasks : DeletePositionDel(k, TRUE)
    \/ \E k \in Tasks : RemoveSymbol(k)
    \/ \E k \in Tasks : ExitPost(k)
    \/ \E c \in Conns, how \in {"closedOK", "closedErr"} : ServerClose(c, how)
    \/ \E k \in Tasks : ListenerError(k)
    \/ \E k \in Tasks : ListenerEnd(k)
    \/ \E k \in Tasks : Wake(k)
    \/ \E k \in Tasks, ok \in BOOLEAN :
          /\ IF ok THEN conn[MaxSystemConns] = "none"
                   ELSE reconnect_attempts <= MaxRetry
          /\ ConnectOpen(k, ok)
    \/ \E k, j \in Tasks : ConnectAuthSuccess(k, j)
    \/ \E k \in Tasks : ListenerStart(k)

SpecFeed == InitTrail /\ [][NextFeed]_vars

\* The reconnect chain followed until its attempts are used up, with entry
\* signals arriving meanwhile: every connect may fail.
NextRetry ==
    \/ \E k \in Tasks, t \in Tickers, sig \in SystemSignals : EntrySignal(k, t, sig)
    \/ \E k \in Tasks : SavePositionSet(k, TRUE)
    \/ \E k \in Tasks : AddSymbol(k)
    \/ \E k \in Tasks : EntryPost(k)
    \/ \E c \in Conns : ServerClose(c, "closedErr")
    \/ \E k \in Tasks : ListenerError(k)
    \/ \E k \in Tasks : Wake(k)
    \/ \E k \in Tasks, ok \in BOOLEAN :
          (ok => conn[MaxSystemConns] = "none") /\ ConnectOpen(k, ok)
    \/ \E k, j \in Tasks : ConnectAuthSuccess(k, j)
    \/ \E k \in Tasks : ConnectAuthError(k)
    \/ \E k \in Tasks : ListenerStart(k)

SpecRetry == InitTrail /\ [][NextRetry]_vars

\* The same with /monitor/start calls and every connection of Conns, failed
\* connects followed MaxRetry deep.
NextRace ==
    \/ SignalStep
    \/ ChainStep
    \/ \E k \in Tasks, ok \in BOOLEAN :
          (ok \/ reconnect_attempts <= MaxRetry) /\ ConnectOpen(k, ok)
    \/ \E k \in Tasks : StartMonitoring(k)

SpecRace == InitTrail /\ [][NextRace]_vars

\* Tickers of every kind tradingview_to_polygon tells apart: CME contracts
\* of the years 2025, 2030 and 2031, generic and micro futures, a crypto
\* pair, a forex pair, stocks.
SymTickers ==
    { MNQU2025,
      <<"E","S","H","2","0","3","0">>,
      <<"E","S","H","2","0","3","1">>,
      <<"N","Q">>, <<"6","E">>, <<"M","2","K">>,
      <<"B","T","C","U","S","D">>,
      <<"E","U","R","U","S","D">>,
      <<"A","A","P","L">>, <<"B","R","K",".","B">> }

\* The connected steady state with a store that can hold any of SymTickers.
InitSym ==
    /\ store = [t \in SymTickers |-> <<>>]
    /\ monitored_symbols = {}
    /\ is_connected = TRUE
    /\ ws = 1
    /\ reconnect_attempts = 0
    /\ conn = [c \in Conns |-> IF c = 1 THEN "open" ELSE "none"]
    /\ subs = [c \in Conns |-> {}]
    /\ task = [k \in Tasks |->
                 IF k = MaxTasks
                 THEN [Idle EXCEPT !.pc = "recv", !.origin = "listener", !.conn = 1]
                 ELSE Idle]
    /\ phase = "serving"
    /\ clock = 0
    /\ tp = [t \in SymTickers |-> <<>>]
    /\ exited = [t \in SymTickers |-> {}]

\* Entry signals for any of SymTickers, and the trades the feed reports for
\* what is subscribed: every symbol goes through tradingview_to_polygon on
\* its way out and through _polygon_to_tradingview on its way back.
NextSym ==
    \/ \E k \in Tasks, t \in SymTickers, sig \in EntrySignals : EntrySignal(k, t, sig)
    \/ \E k \in Tasks : SavePositionSet(k, TRUE)
    \/ \E k \in Tasks : AddSymbol(k)
    \/ \E k \in Tasks : EntryPost(k)
    \/ \E k \in Tasks, sym \in FeedOf(SymTickers), price \in TickPrices :
          RecvTrade(k, sym, price)
    \/ \E k \in Tasks : GetPosition(k, TRUE)
    \/ \E k \in Tasks : SendStopUpdate(k, TRUE)

SpecSym == InitSym /\ [][NextSym]_vars

\* The feed closes, normally or with an error, a connection a listener is
\* streaming from; the last connection of Conns is never closed.
MidStreamClose(c, how) ==
    /\ c < MaxConns
    /\ c = ws
    /\ is_connected
    /\ \E k \in Tasks : task[k].pc = "recv" /\ task[k].conn = c
    /\ ServerClose(c, how)

\* Mid-stream disconnects with the feed reachable again after at most
\* MaxRetry failed connects, and entry signals meanwhile.
NextLive ==
    \/ \E k \in Tasks, t \in Tickers, sig \in SystemSignals : EntrySignal(k, t, sig)
    \/ \E k \in Tasks : SavePositionSet(k, TRUE)
    \/ \E k \in Tasks : AddSymbol(k)
    \/ \E k \in Tasks : EntryPost(k)
    \/ \E c \in Conns, how \in {"closedOK", "closedErr"} : MidStreamClose(c, how)
    \/ \E k \in Tasks : ListenerError(k)
    \/ \E k \in Tasks : ListenerEnd(k)
    \/ \E k \in Tasks : Wake(k)
    \/ \E k \in Tasks : reconnect_attempts <= MaxRetry /\ ConnectOpen(k, FALSE)
    \/ \E k \in Tasks : ConnectOpen(k, TRUE)
    \/ \E k, j \in Tasks : ConnectAuthSuccess(k, j)
    \/ \E k \in Tasks : ListenerStart(k)

\* The event loop runs every coroutine that can go on: a listener whose
\* connection is gone leaves its loop, a sleep ends, a reachable feed
\* accepts the connection and answers the auth message, a created listener
\* task starts.
FairLive ==
    /\ WF_vars(\E k \in Tasks : ListenerError(k))
    /\ WF_vars(\E k \in Tasks : ListenerEnd(k))
    /\ WF_vars(\E k \in Tasks : Wake(k))
    /\ SF_vars(\E k \in Tasks : ConnectOpen(k, TRUE))
    /\ WF_vars(\E k, j \in Tasks : ConnectAuthSuccess(k, j))
    /\ WF_vars(\E k \in Tasks : ListenerStart(k))

SpecLive == InitTrail /\ [][NextLive]_vars /\ FairLive

\* The start of the process after a restart, with a feed that may refuse
\* or lose the connection, up to the first signals served: MaxRetry failed
\* connects, MaxSystemConns connections, no ticks.
NextBoot ==
    \/ \E k \in Tasks, ok \in BOOLEAN :
          /\ IF ok THEN conn[MaxSystemConns] = "none"
                   ELSE reconnect_attempts < MaxRetry
          /\ ConnectOpen(k, ok)
    \/ \E k \in Tasks : Wake(k)
    \/ \E k, j \in Tasks : ConnectAuthSuccess(k, j)
    \/ \E k \in Tasks : ConnectAuthRejected(k)
    \/ \E k \in Tasks : ConnectAuthError(k)
    \/ \E k \in Tasks : ListenerStart(k)
    \/ \E k \in Tasks : ListenerError(k)
    \/ \E k \in Tasks : ListenerEnd(k)
    \/ \E c \in Conns, how \in {"closedOK", "closedErr"} : ServerClose(c, how)
    \/ \E k \in Tasks, ok \in BOOLEAN : StartupKeys(k, ok)
    \/ \E t \in Tickers : Expire(t)
    \/ \E k \in Tasks, t \in Tickers, sig \in SystemSignals : EntrySignal(k, t, sig)
    \/ \E k \in Tasks : SavePositionSet(k, TRUE)
    \/ \E k \in Tasks : AddSymbol(k)
    \/ \E k \in Tasks : EntryPost(k)

SpecBoot == Init /\ [][NextBoot]_vars

\* Entry webhooks whose quantity, trailStep and pointValue are each
\* negative, zero (or missing) or positive.
ValidationSignals ==
    [action : {"buy", "sell"}, price : {20000}, quantity : {-1, 0, 1},
     armAfterProfit : {100}, trailStep : {-50, 0, 50}, hardStop : {19950},
     pointValue : {-2, 0, 2}]

\* Entry signals of ValidationSignals, accepted or answered 400, and the
\* exits that make room for the next one.
NextEntry ==
    \/ \E k \in Tasks, t \in Tickers, sig \in ValidationSignals : EntrySignal(k, t, sig)
    \/ \E sig \in ValidationSignals : EntryRejected(sig)
    \/ \E k \in Tasks, ok \in BOOLEAN : SavePositionSet(k, ok)
    \/ \E k \in Tasks : AddSymbol(k)
    \/ \E k \in Tasks : EntryPost(k)
    \/ \E k \in Tasks, t \in Tickers : ExitSignal(k, t)
    \/ \E k \in Tasks, ok \in BOOLEAN : DeletePositionDel(k, ok)
    \/ \E k \in Tasks : RemoveSymbol(k)
    \/ \E k \in Tasks : ExitPost(k)

SpecEntry == InitTrail /\ [][NextEntry]_vars

\* The spec's long and short scenario entries, with the action spelled in
\* lower case, in upper case and capitalised, and prices on either side of
\* the long entry.
SideSignals ==
    { [action |-> a, price |-> 20000, quantity |-> 1, armAfterProfit |-> 100,
       trailStep |-> 50, hardStop |-> 19950, pointValue |-> 2]
        : a \in {"buy", "BUY", "Buy", "sell", "SELL"} }
SidePrices == {19950, 19925, 20050, 20075}

\* Entries of SideSignals and the ticks that trail them, with a store and a
\* brokerage that answer.
NextSide ==
    \/ \E k \in Tasks, t \in Tickers, sig \in SideSignals : EntrySignal(k, t, sig)
    \/ \E k \in Tasks : SavePositionSet(k, TRUE)
    \/ \E k \in Tasks : AddSymbol(k)
    \/ \E k \in Tasks : EntryPost(k)
    \/ \E k \in Tasks, sym \in FeedSymbols, price \in SidePrices :
          RecvTrade(k, sym, price)
    \/ \E k \in Tasks : GetPosition(k, TRUE)
    \/ \E k \in Tasks : SendStopUpdate(k, TRUE)

SpecSide == InitTrail /\ [][NextSide]_vars

\* ------------------------------------------------------------------ claims
\* A task is inside calculate_auto_trail for ticker t.
MidTick(k, t) ==
    task[k].pc \in {"get", "set", "add", "post"} /\ task[k].ticker = t

\* A task is inside handle_tiger_alt_exit for ticker t.
MidExit(k, t) ==
    task[k].pc \in {"x_del", "x_remove", "x_post"} /\ task[k].ticker = t

\* A task is inside the body of save_position or delete_position.
InStoreBody(k) ==
    task[k].pc \in {"e_set", "e_add", "set", "add", "x_del", "x_remove"}

\* C1. The stored lockedProfit of a record never decreases while the record
\* lives (one timestamp is one record), whatever the ticks and whatever
\* armAfterProfit and trailStep are.  The code does not keep this.
C1_LockedProfitNeverDecreases ==
    [][\A t \in Tickers :
          (/\ HasPosition(t)
           /\ store'[t] # <<>>
           /\ store'[t][1].timestamp = store[t][1].timestamp)
          => store'[t][1].lockedProfit >= store[t][1].lockedProfit]_vars

\* C2. Within one record's lifetime the stop prices dispatched to the
\* brokerage never loosen: for a long position (the order sells) each is >=
\* the one dispatched before it, for a short position each is <= it.  The
\* code does not keep this.
C2_DispatchedStopsNeverLoosen ==
    [][\A t \in Tickers :
          (/\ tp[t] # <<>>
           /\ tp'[t] # <<>>
           /\ tp'[t][1].lifetime = tp[t][1].lifetime)
          => IF tp[t][1].order.action = "sell"
             THEN StopLeq(tp[t][1].order.stopPrice, tp'[t][1].order.stopPrice)
             ELSE StopLeq(tp'[t][1].order.stopPrice, tp[t][1].order.stopPrice)]_vars

\* C3. Every stored record has currentStop set if and only if its
\* lockedProfit is > 0.  The code does not keep this.
C3_StopSetIffLockedPositive ==
    \A t \in Tickers :
        HasPosition(t) =>
            ((store[t][1].currentStop # NoStop) <=> (store[t][1].lockedProfit > 0))

\* C4. A tick whose profit is below armAfterProfit (a negative profit
\* included, long or short) ends calculate_auto_trail at once: no store
\* write, no stop adjustment dispatched, the record as it was.
C4_BelowArmNoEffect ==
    [][\A k \in Tasks :
          (/\ task[k].pc = "get"
           /\ task'[k] # task[k]
           /\ HasPosition(task[k].ticker)
           /\ Profit(store[task[k].ticker][1], task[k].price)
                 < store[task[k].ticker][1].armAfterProfit)
          => /\ task'[k].pc \in {"recv", "l_raise"}
             /\ task'[k].nsent = 0
             /\ store' = store
             /\ tp' = tp]_vars

\* C4, its case: the spec's short position (entry 50, pointValue 1,
\* quantity 10) has had the adverse tick 52 handled; nothing was dispatched
\* and currentStop is still unset.
C4_AdverseTickHandled ==
    \E k \in Tasks :
        /\ task[k].pc = "recv"
        /\ task[k].ticker = MNQU2025
        /\ task[k].price = 52
        /\ task[k].nsent = 0
        /\ HasPosition(MNQU2025)
        /\ store[MNQU2025][1].side = "sell"
        /\ store[MNQU2025][1].entryPrice = 50
        /\ store[MNQU2025][1].quantity = 10
        /\ store[MNQU2025][1].pointValue = 1
        /\ store[MNQU2025][1].currentStop = NoStop
        /\ tp[MNQU2025] = <<>>

LongScenario(position) ==
    /\ position.side = "buy" /\ position.entryPrice = 20000
    /\ position.pointValue = 2 /\ position.quantity = 1
    /\ position.armAfterProfit = 100 /\ position.trailStep = 50

\* C6, as the code has it. For the long position entry 20000, pointValue 2,
\* quantity 1, armAfterProfit 100, trailStep 50, a tick at 20050 that acts
\* makes lockedProfit 50 and dispatches stopPrice 20025; in general, for
\* trailStep > 0, the locked profit of a tick that acts is
\* min((armAfterProfit - trailStep) + floor((profit - armAfterProfit) /
\* trailStep) * trailStep, profit - trailStep).
C6_FirstArmLocksArmLessStep ==
    \A k \in Tasks :
        /\ (task[k].pc \in {"set", "add", "post"} /\ task[k].pos[1].trailStep > 0)
              => LET position == task[k].pos[1]
                     profit == Profit(position, task[k].price)
                 IN  position.lockedProfit =
                        Min((position.armAfterProfit - position.trailStep)
                               + ((profit - position.armAfterProfit)
                                     \div position.trailStep) * position.trailStep,
                            profit - position.trailStep)
        /\ (/\ task[k].pc \in {"set", "add", "post"}
            /\ LongScenario(task[k].pos[1])
            /\ task[k].price = 20050)
              => /\ task[k].pos[1].lockedProfit = 50
                 /\ StopIs(task[k].pos[1].currentStop, 20025)
        /\ (/\ task[k].pc = "recv" /\ task[k].nsent = 1
            /\ task[k].price = 20050
            /\ HasPosition(task[k].ticker)
            /\ LongScenario(store[task[k].ticker][1]))
              => /\ StopIs(tp[task[k].ticker][1].order.stopPrice, 20025)
                 /\ \/ store[task[k].ticker][1].currentStop = NoStop
                    \/ store[task[k].ticker][1].lockedProfit = 50

\* C6, its case: the scenario's tick at 20050 has been handled, the record
\* is stored with lockedProfit 50 and the stop 20025 has been dispatched.
C6_ScenarioTickHandled ==
    \E k \in Tasks :
        /\ task[k].pc = "recv" /\ task[k].nsent = 1
        /\ task[k].ticker = MNQU2025
        /\ task[k].price = 20050
        /\ HasPosition(MNQU2025)
        /\ LongScenario(store[MNQU2025][1])
        /\ store[MNQU2025][1].lockedProfit = 50
        /\ StopIs(store[MNQU2025][1].currentStop, 20025)
        /\ tp[MNQU2025] # <<>>
        /\ StopIs(tp[MNQU2025][1].order.stopPrice, 20025)

\* C6, as the claim has it. The scenario's tick at 20050 makes lockedProfit
\* 100 and dispatches stopPrice 20050; in general the locked profit of a
\* tick that acts is armAfterProfit + floor((profit - armAfterProfit) /
\* trailStep) * trailStep.
C6_FirstArmLocksArm ==
    \A k \in Tasks :
        /\ (task[k].pc \in {"set", "add", "post"} /\ task[k].pos[1].trailStep > 0)
              => LET position == task[k].pos[1]
                     profit == Profit(position, task[k].price)
                 IN  position.lockedProfit =
                        position.armAfterProfit
                           + ((profit - position.armAfterProfit)
                                 \div position.trailStep) * position.trailStep
        /\ (/\ task[k].pc \in {"set", "add", "post"}
            /\ LongScenario(task[k].pos[1])
            /\ task[k].price = 20050)
              => /\ task[k].pos[1].lockedProfit = 100
                 /\ StopIs(task[k].pos[1].currentStop, 20050)

\* C7. Whenever a candidate locked profit is computed (profit >=
\* armAfterProfit, trailStep > 0) it is <= the profit of the tick: for the
\* record and price of every tick about to be decided, and for the record
\* every tick that acts is about to store.
C7_CandidateAtMostProfit ==
    \A k \in Tasks :
        /\ (/\ task[k].pc = "get"
            /\ HasPosition(task[k].ticker)
            /\ store[task[k].ticker][1].trailStep > 0
            /\ Profit(store[task[k].ticker][1], task[k].price)
                  >= store[task[k].ticker][1].armAfterProfit)
              => LockedProfit(store[task[k].ticker][1],
                              Profit(store[task[k].ticker][1], task[k].price))
                    <= Profit(store[task[k].ticker][1], task[k].price)
        /\ (task[k].pc \in {"set", "add", "post"} /\ task[k].pos[1].trailStep > 0)
              => task[k].pos[1].lockedProfit <= Profit(task[k].pos[1], task[k].price)

\* C7, its case: a tick that armed with trailStep > 0 is about to store a
\* positive candidate, trailStep below the profit of the tick.
C7_CandidateComputed ==
    \E k \in Tasks :
        /\ task[k].pc = "set"
        /\ task[k].pos[1].trailStep > 0
        /\ task[k].pos[1].lockedProfit > 0
        /\ task[k].pos[1].lockedProfit
              = Profit(task[k].pos[1], task[k].price) - task[k].pos[1].trailStep

\* C8. Whenever no task is inside the body of save_position or
\* delete_position, monitored_symbols is the set of tickers with a record in
\* the store (an expired record is no record).  The code does not keep this.
C8_MonitoredEqualsStored ==
    (phase = "serving" /\ \A k \in Tasks : ~InStoreBody(k))
        => monitored_symbols = StoredTickers

\* C9. Once an exit has deleted the record of the latest entry for a ticker,
\* and the exit and every tick being handled for the ticker have completed,
\* the ticker has no record and is not monitored (a new entry signal moves
\* the clock on).  The code does not keep this.
C9_ExitedStaysGone ==
    \A t \in Tickers :
        (/\ clock \in exited[t]
         /\ \A k \in Tasks : ~MidTick(k, t) /\ ~MidExit(k, t))
        => ~HasPosition(t) /\ t \notin monitored_symbols

\* C10. No two tasks are inside calculate_auto_trail for the same ticker at
\* the same time.  The code does not keep this.
C10_OneTickAtATime ==
    \A j, k \in Tasks :
        (j # k /\ task[j].pc \in {"get", "set", "add", "post"}
               /\ task[k].pc \in {"get", "set", "add", "post"})
        => task[j].ticker # task[k].ticker

\* C11. On no connection is a subscribe sent before the auth_success of
\* that connection has been received: while connect() still waits for the
\* auth response of a connection, nothing is subscribed on it.  The code
\* does not keep this.
C11_NoSubscribeBeforeAuth ==
    \A k \in Tasks :
        task[k].pc = "authing" => subs[task[k].conn] = {}

\* C12. A handshake that ends without a listener being started (the auth
\* response is no list, or holds no auth_success, or the wait for it raised)
\* leaves is_connected false and the task in a scheduled reconnect.  The
\* code does not keep this.
C12_AuthFailureSchedulesReconnect ==
    [][\A k \in Tasks :
          (/\ task[k].pc = "authing"
           /\ task'[k].pc # "authing"
           /\ \A j \in Tasks : task'[j].pc = "l_start" => task[j].pc = "l_start")
          => ~is_connected' /\ task'[k].pc = "sleeping"]_vars

\* C13. add_symbol and remove_symbol update the monitored set whatever the
\* connection state is; the subscribe sent by a connect() that succeeds
\* lists exactly the feed symbols of the monitored set of that moment, on
\* self.ws and nowhere else; and whenever the adapter is connected on an
\* open connection, that connection is subscribed to exactly the feed
\* symbols of the monitored set.
C13_ReconnectReplaysMonitored ==
    /\ [](is_connected /\ WsOpen => subs[ws] = FeedOf(monitored_symbols))
    /\ [][/\ \A k \in Tasks :
               (task[k].pc \in {"e_add", "add"} /\ task'[k].pc # task[k].pc)
               => task[k].ticker \in monitored_symbols'
          /\ \A k \in Tasks :
               (task[k].pc = "x_remove" /\ task'[k].pc # "x_remove")
               => task[k].ticker \notin monitored_symbols'
          /\ \A k \in Tasks :
               (task[k].pc = "authing" /\ task'[k].pc # "authing" /\ is_connected')
               => /\ subs'[ws] = subs[ws] \cup FeedOf(monitored_symbols)
                  /\ \A c \in Conns \ {ws} : subs'[c] = subs[c]
                  /\ monitored_symbols' = monitored_symbols]_vars

\* C13, its case: a ticker that was added while the adapter was not
\* connected (connection 1 never carried its subscribe) is subscribed on
\* the connection the reconnect has opened, and a listener receives on it.
C13_AddedWhileDownSubscribed ==
    /\ is_connected /\ WsOpen /\ ws > 1
    /\ monitored_symbols = {MNQU2025}
    /\ subs[1] = {}
    /\ subs[ws] = FeedOf({MNQU2025})
    /\ \E k \in Tasks : task[k].pc = "recv" /\ task[k].conn = ws

\* C14. calculate_auto_trail is entered only for a trade event whose
\* translated ticker is monitored at that moment, and once an exit has
\* removed the ticker of the latest entry and has answered, no later trade
\* event for it is forwarded.  The code keeps the first half and not the
\* second.
C14_ForwardedOnlyWhileMonitored ==
    [][\A k \in Tasks :
          (task[k].pc = "recv" /\ task'[k].pc = "get")
          => /\ task'[k].ticker \in monitored_symbols
             /\ ~(/\ clock \in exited[task'[k].ticker]
                  /\ \A j \in Tasks : ~MidExit(j, task'[k].ticker))]_vars

\* C15. Inside a run of failed connection attempts (the attempt that has
\* just failed was itself started by _handle_reconnect, and no auth_success
\* came in between) the delay of the next attempt is at least the delay of
\* the one before, and no delay is above 60 seconds.
C15_BackoffNonDecreasingCapped ==
    [][\A k \in Tasks :
          (task'[k].pc = "sleeping" /\ task[k].pc # "sleeping")
          => /\ task'[k].wait <= 60
             /\ task'[k].wait >= 1
             /\ (task[k].wait > 0 /\ reconnect_attempts' = reconnect_attempts + 1)
                => task'[k].wait >= task[k].wait]_vars

\* C15 witness: the chain sleeps for the ceiling a second time in a row.
C15_CeilingReachedTwice ==
    \E k \in Tasks :
        /\ task[k].pc = "sleeping"
        /\ task[k].wait = 60
        /\ reconnect_attempts = 7

\* A task is inside the reconnect chain or inside a connect().
InChain(k) == task[k].pc \in {"sleeping", "connecting", "authing"}

\* C16. reconnect_attempts never exceeds max_reconnect_attempts; when a
\* connection attempt fails with the counter at the maximum, no further
\* attempt is scheduled (nothing goes to sleep, the failing task ends) and
\* the process keeps serving; add_symbol still puts its ticker into the
\* monitored set then.
C16_RetryChainTerminates ==
    /\ [](reconnect_attempts <= max_reconnect_attempts /\ phase = "serving")
    /\ [][(reconnect_attempts = max_reconnect_attempts
           /\ reconnect_attempts' = max_reconnect_attempts)
          => /\ \A k \in Tasks :
                   task'[k].pc = "sleeping" => task[k].pc = "sleeping"
             /\ \A k \in Tasks :
                   (task[k].pc \in {"connecting", "authing"}
                      /\ task'[k].pc \notin {task[k].pc, "authing"})
                   => task'[k].pc = "free" /\ ~is_connected'
             /\ \A k \in Tasks :
                   (task[k].pc = "e_add" /\ task'[k].pc # "e_add")
                   => task[k].ticker \in monitored_symbols']_vars

\* C16 witness: the attempts are used up, the chain has ended, and an entry
\* signal that came afterwards has had its ticker added to the monitored
\* set, with no connection to subscribe it on.
C16_AddedAfterExhaustion ==
    /\ reconnect_attempts = max_reconnect_attempts
    /\ ~is_connected
    /\ \A k \in Tasks : ~InChain(k) /\ task[k].pc \notin {"recv", "l_start", "l_raise"}
    /\ \E k \in Tasks : task[k].pc = "e_post" /\ task[k].ticker \in monitored_symbols
    /\ \A c \in Conns : subs[c] = {}

\* C17. A listener waiting on an open connection that stays open is never
\* thrown out of its loop by a message: whatever arrives, it goes on to the
\* engine or back to the next message, the adapter stays connected and no
\* reconnect is counted.  The code does not keep this for a message that
\* is no JSON.
C17_MessageNeverBreaksStream ==
    [][\A k \in Tasks :
          (/\ task[k].pc = "recv"
           /\ conn[task[k].conn] = "open"
           /\ conn'[task[k].conn] = "open"
           /\ task'[k] # task[k])
          => /\ task'[k].pc \in {"recv", "get"}
             /\ is_connected' = is_connected
             /\ reconnect_attempts' = reconnect_attempts]_vars

\* C18. When the POST of a stop adjustment fails, the store is left as it
\* is, that POST was the tick's only one, the listener is back at its loop
\* with the adapter still connected; and a later tick whose candidate equals
\* the lockedProfit of the stored record (currentStop set) dispatches
\* nothing, the failed delivery is not made again.
C18_FailedDispatchNotRetried ==
    [][\A k \in Tasks :
          /\ (task[k].pc = "post" /\ task'[k] # task[k]
                /\ ~tp'[task[k].ticker][1].delivered)
             => /\ store' = store
                /\ task'[k].nsent = 1
                /\ task'[k].pc \in {"recv", "l_raise"}
                /\ is_connected' = is_connected
                /\ reconnect_attempts' = reconnect_attempts
          /\ (/\ task[k].pc = "get"
              /\ task'[k] # task[k]
              /\ tp[task[k].ticker] # <<>>
              /\ ~tp[task[k].ticker][1].delivered
              /\ HasPosition(task[k].ticker)
              /\ store[task[k].ticker][1].currentStop # NoStop
              /\ LockedProfit(store[task[k].ticker][1],
                              Profit(store[task[k].ticker][1], task[k].price))
                    = store[task[k].ticker][1].lockedProfit)
             => /\ task'[k].pc \in {"recv", "l_raise"}
                /\ task'[k].nsent = 0
                /\ tp' = tp /\ store' = store]_vars

\* C18 witness: the last stop adjustment dispatched was not delivered, its
\* stop and locked profit are in the store, and a later tick that armed
\* with the same candidate has been handled without a dispatch.
C18_SameCandidateAfterFailure ==
    \E k \in Tasks :
        /\ task[k].pc = "recv"
        /\ task[k].ticker = MNQU2025
        /\ task[k].nsent = 0
        /\ tp[MNQU2025] # <<>>
        /\ ~tp[MNQU2025][1].delivered
        /\ HasPosition(MNQU2025)
        /\ store[MNQU2025][1].currentStop # NoStop
        /\ tp[MNQU2025][1].order = StopUpdatePayload(MNQU2025, store[MNQU2025][1])
        /\ Armed(store[MNQU2025][1], Profit(store[MNQU2025][1], task[k].price))
        /\ LockedProfit(store[MNQU2025][1],
                        Profit(store[MNQU2025][1], task[k].price))
              = store[MNQU2025][1].lockedProfit

\* C19. Every monitored ticker comes back as itself from
\* _polygon_to_tradingview(tradingview_to_polygon(t)), so that a trade
\* reported for its feed symbol is matched to it.  The code does not keep
\* this for CME contracts of the years after 2030.
C19_RoundTrip ==
    \A t \in monitored_symbols :
        polygon_to_tradingview(tradingview_to_polygon(t)) = t

\* The feed has disconnected mid-stream: a listener is waiting on a
\* connection that is closed.
Disconnected ==
    \E k \in Tasks : task[k].pc = "recv" /\ conn[task[k].conn] # "open"

\* The adapter is connected and a listener is reading the open connection
\* that is self.ws.
Streaming ==
    /\ is_connected
    /\ WsOpen
    /\ \E k \in Tasks : task[k].pc = "recv" /\ task[k].conn = ws

\* C20. Whenever the feed has disconnected mid-stream, and it is reachable
\* again before the attempts are used up, the adapter is eventually
\* connected again with a listener reading the new connection.  The code
\* does not keep this when the connection was closed normally.
C20_DisconnectLeadsToStreaming == Disconnected ~> Streaming

\* C21. Nothing is monitored while startup_event runs, and the step that
\* completes it leaves monitored_symbols equal to the set of tickers with a
\* record in the store, whether the adapter is connected then or not.
C21_StartupRebuildsMonitored ==
    /\ [](phase = "startup" => monitored_symbols = {})
    /\ [][(phase = "startup" /\ phase' = "serving")
          => monitored_symbols' = {t \in Tickers : store'[t] # <<>>}]_vars

\* C21 witness: the feed refused the handshake during startup, so there is
\* no listener and the adapter is not connected; startup has completed, no
\* signal has come yet, and the stored ticker is monitored.
C21_RebuiltWithoutFeed ==
    /\ phase = "serving"
    /\ clock = 0
    /\ ~is_connected
    /\ \A k \in Tasks : task[k].pc = "free"
    /\ \A c \in Conns : subs[c] = {}
    /\ StoredTickers = {MNQU2025}
    /\ monitored_symbols = {MNQU2025}

\* C22. Every record in the store has quantity > 0, pointValue > 0 and
\* trailStep > 0.  The code does not keep this: its validation turns away
\* zero and missing values only.
C22_StoredRecordsPositive ==
    \A t \in Tickers :
        HasPosition(t)
        => /\ store[t][1].quantity > 0
           /\ store[t][1].pointValue > 0
           /\ store[t][1].trailStep > 0

\* The stop price <<n, d>> of an order is entryPrice + lockedProfit /
\* (pointValue * quantity) for a long record, entryPrice - the same for a
\* short one.
StopMatchesRecord(stop, position) ==
    LET d == position.pointValue * position.quantity
    IN  /\ stop # NoStop
        /\ stop[2] # 0
        /\ IF position.side = "buy"
           THEN stop[1] * d = (position.entryPrice * d + position.lockedProfit) * stop[2]
           ELSE stop[1] * d = (position.entryPrice * d - position.lockedProfit) * stop[2]

\* C23. The order a ratcheting tick dispatches has the record's ticker and
\* quantity, the action opposite to the record's side, orderType stop, and
\* the stop price that follows from the entry price and the lockedProfit the
\* tick has handed to save_position; that lockedProfit is the candidate of
\* the tick.
C23_DispatchedOrderMatchesRecord ==
    [][\A k \in Tasks :
          (task[k].pc = "post" /\ task'[k].pc # "post")
          => LET position == task[k].pos[1]
                 order == tp'[task[k].ticker][1].order
             IN  /\ order.ticker = task[k].ticker
                 /\ order.ticker = position.ticker
                 /\ order.quantity = position.quantity
                 /\ position.side = "buy" => order.action = "sell"
                 /\ position.side = "sell" => order.action = "buy"
                 /\ order.orderType = "stop"
                 /\ StopMatchesRecord(order.stopPrice, position)
                 /\ position.lockedProfit
                      = LockedProfit(position, Profit(position, task[k].price))
                 /\ store[task[k].ticker] = task[k].pos
                      => StopMatchesRecord(order.stopPrice, store'[task[k].ticker][1])]_vars

\* C23 witness: a short position has ratcheted on the tick just handled;
\* the buy stop dispatched is the one that follows from the stored record,
\* which locks a profit.
C23_ShortStopDispatched ==
    \E k \in Tasks :
        /\ task[k].pc = "recv"
        /\ task[k].nsent = 1
        /\ HasPosition(MNQU2025)
        /\ store[MNQU2025][1].side = "sell"
        /\ store[MNQU2025][1].lockedProfit > 0
        /\ tp[MNQU2025] # <<>>
        /\ tp[MNQU2025][1].order.action = "buy"
        /\ StopMatchesRecord(tp[MNQU2025][1].order.stopPrice, store[MNQU2025][1])

\* C24. At every dispatch of a stop adjustment the store holds a record for
\* the ticker whose currentStop is the stop price dispatched.  The code
\* does not keep this when the write of save_position has failed.
C24_DispatchedStopIsStored ==
    [][\A k \in Tasks :
          (task[k].pc = "post" /\ task'[k].pc # "post")
          => /\ HasPosition(task[k].ticker)
             /\ store[task[k].ticker][1].currentStop
                   = tp'[task[k].ticker][1].order.stopPrice]_vars

\* C25. A position entered by a signal accepted as a buy is trailed as a
\* long: the lockedProfit of a ratchet is the candidate for the profit
\* (price - entryPrice) * pointValue * quantity and the stop order
\* dispatched is a sell; one entered by a sell is trailed as a short.  The
\* code does not keep this for an action that is not spelled in lower case.
C25_AcceptedSideIsTrailedSide ==
    [][\A k \in Tasks :
          (task[k].pc = "post" /\ task'[k].pc # "post")
          => LET position == task[k].pos[1]
                 order == tp'[task[k].ticker][1].order
                 d == position.pointValue * position.quantity
                 long == (task[k].price - position.entryPrice) * d
                 short == (position.entryPrice - task[k].price) * d
             IN  /\ Lower(position.side) = "buy"
                    => /\ order.action = "sell"
                       /\ position.lockedProfit = LockedProfit(position, long)
                 /\ Lower(position.side) = "sell"
                    => /\ order.action = "buy"
                       /\ position.lockedProfit = LockedProfit(position, short)]_vars

\* C26. When a tick has been handled, the number of auto_trail_update
\* events broadcast for it is the number of stop adjustments dispatched for
\* it: one when it ratcheted, none otherwise.  The code does not keep this:
\* nothing is ever broadcast.
C26_BroadcastPerDispatch ==
    [][\A k \in Tasks :
          (task[k].pc \in {"get", "post"} /\ task'[k].pc \in {"recv", "l_raise"})
          => task'[k].ncast = task'[k].nsent]_vars

\* A task is the listener of connection c: created and about to start, or
\* inside its loop.
ListeningOn(k, c) ==
    \/ task[k].pc = "l_start"
    \/ /\ task[k].pc \in {"recv", "l_raise", "get", "set", "add", "post"}
       /\ task[k].conn = c

\* C27. While is_connected is true a listener is running on self.ws, and a
\* listener that leaves its loop leaves the adapter disconnected with the
\* reconnect scheduled.  The code does not keep this when the loop ends
\* because the connection was closed normally.
C27_ConnectedMeansListening ==
    /\ [](is_connected => \E k \in Tasks : ListeningOn(k, ws))
    /\ [][\A k \in Tasks :
            (task[k].pc \in {"recv", "l_raise"}
               /\ task'[k].pc \notin {"recv", "l_raise", "get"})
            => ~is_connected' /\ task'[k].pc = "sleeping"]_vars

====
